---- MODULE Spec2Model ----
(***************************************************************************)
(* A model of neptune-gremlin.js: the Connection class (connect, query     *)
(* with its async.retry loop, saveNode, deleteNode, saveEdge, deleteEdge,  *)
(* search) and the module function updateProperties.                       *)
(*                                                                         *)
(* Four specifications share the module:                                   *)
(*   Spec         the graph store and the upsert/delete operations on it   *)
(*   SpecRetry    Connection.connect / Connection.query (the retry loop)   *)
(*   SpecExtract  the result extraction done by Connection.search          *)
(*   SpecEdge     the store again, with edges                              *)
(***************************************************************************)
EXTENDS Integers, Sequences, FiniteSets, TLC

(***************************************************************************)
(* Bounds of the model.                                                    *)
(***************************************************************************)
\* property values are 1..MaxVal
MaxVal == 2
\* calls of Connection.query made on the one Connection
NumCalls == 1
\* sessions the Connection may open by connect()
MaxSessions == 1
\* raw nodes, and raw edges, a traversal of search returns
MaxRaw == 2
\* the longest list a raw property value is drawn with
MaxItems == 2
\* the calls of query in flight together, and the connect() calls, where
\* concurrent calls are followed
NumConcurrent == 2
MaxConnects == 2

(***************************************************************************)
(* Program constants.                                                      *)
(***************************************************************************)
\* async.retry's `times`
times == 5
\* the close code the close handler throws on
AbnormalClose == 1006

(***************************************************************************)
(* Input domains.                                                          *)
(***************************************************************************)
VertexIds == {"v1", "v2"}
EdgeIds == {"e1"}
\* "constructor" is a property name like any other for the graph engine
Keys == {"name", "constructor"}
Vals == 1 .. MaxVal
LabelLists == {<<"person">>, <<"person", "owner">>}
EdgeLabels == {"owns", "likes"}
\* every mapping from some of the keys to values: the `properties` objects
PropMaps == UNION {[K -> Vals] : K \in SUBSET Keys}
Nodes == [id : VertexIds, labels : LabelLists, properties : PropMaps]
BareNodes == {n \in Nodes : n.properties = <<>>}
Edges == [id : EdgeIds, label : EdgeLabels, from : VertexIds, to : VertexIds,
          properties : PropMaps]

VARIABLES
    graph,      \* the remote graph store: [V |-> vertices, E |-> edges]
    last        \* the last operation completed on the store, with what it found

storeVars == <<graph, last>>

VARIABLES
    connection, \* this.connection: 0 (null) or the session connect() opened last
    open,       \* the sessions opened by this Connection and not closed
    created,    \* how many sessions this Connection has opened
    pc,         \* per call of query: idle, attempting, waiting, resolved,
                \* rejected, or faulted (its retry callback threw)
    attempt,    \* per call: async.retry's `attempt` counter
    g,          \* per call: the session the traversal source `g` is bound to
    invocations,\* per call: how many times the query function was invoked
    lastOutcome,\* per call: {} or {how the latest invocation settled}
    onlyTransient, \* per call: every invocation so far failed with a
                \* recognized transient error
    outcome,    \* per call: what the caller of query observes
    reconnects, \* per call: close-and-connect rounds done by errorFilter
    wsFailures, \* per call: invocations that failed with "WebSocket is not open"
    uncaught,   \* exceptions thrown inside callbacks, which no caller receives
    struck      \* calls that were in flight on a session when it closed with 1006

retryVars == <<connection, open, created, pc, attempt, g, invocations,
               lastOutcome, onlyTransient, outcome, reconnects, wsFailures,
               uncaught, struck>>

VARIABLES
    rawNodes,   \* search: what the vertex traversal returned
    rawEdges,   \* search: what g.E().elementMap().toList() returned
    found       \* search: {} or {the {nodes, edges} it returned}

extractVars == <<rawNodes, rawEdges, found>>

VARIABLES
    task        \* the operation running on the store, one traversal at a time

stepVars == <<task>>

vars == <<storeVars, retryVars, extractVars, stepVars>>

(***************************************************************************)
(* JavaScript object semantics used by updateProperties.                   *)
(***************************************************************************)
\* Names every object literal inherits from Object.prototype; `in` sees them.
ObjectPrototypeKeys == {"constructor"}

\* `k in obj` (line 410): true for own and for inherited property names.
JsIn(k, obj) == k \in DOMAIN obj \/ k \in ObjectPrototypeKeys

\* `for (const k in obj)`: the enumerable names; inherited Object.prototype
\* members are not enumerable.
ForIn(obj) == DOMAIN obj

\* Array.prototype.join
RECURSIVE join(_, _)
join(xs, sep) ==
    IF xs = <<>> THEN ""
    ELSE IF Len(xs) = 1 THEN xs[1]
    ELSE xs[1] \o sep \o join(Tail(xs), sep)

(***************************************************************************)
(* The traversal steps the code issues, as functions on the store.         *)
(* A vertex is [label, props]; an edge is [label, outV, inV, props].       *)
(***************************************************************************)
NoProps == [k \in {} |-> 0]

Elements(G, isNode) == IF isNode THEN G.V ELSE G.E

WithElements(G, isNode, els) ==
    IF isNode THEN [G EXCEPT !.V = els] ELSE [G EXCEPT !.E = els]

\* gve.call(g, id).valueMap().toList(): one map when the element exists
valueMap(G, id, isNode) ==
    IF id \in DOMAIN Elements(G, isNode)
    THEN <<Elements(G, isNode)[id].props>>
    ELSE <<>>

\* gve.call(g, id).properties(ep).drop().next()
dropProperty(G, id, isNode, ep) ==
    LET els == Elements(G, isNode) IN
    IF id \notin DOMAIN els THEN G
    ELSE LET old == els[id].props
             new == [k \in DOMAIN old \ {ep} |-> old[k]]
         IN WithElements(G, isNode, [els EXCEPT ![id].props = new])

\* gve.call(g, id).property(single, prop, value).next() for a vertex,
\* gve.call(g, id).property(prop, value).next() for an edge
setProperty(G, id, isNode, prop, value) ==
    LET els == Elements(G, isNode) IN
    IF id \notin DOMAIN els THEN G
    ELSE LET old == els[id].props
             new == [k \in DOMAIN old \cup {prop} |->
                        IF k = prop THEN value ELSE old[k]]
         IN WithElements(G, isNode, [els EXCEPT ![id].props = new])

\* the first loop of updateProperties, over the names still to visit
RECURSIVE dropMissing(_, _, _, _, _)
dropMissing(G, id, isNode, props, todo) ==
    IF todo = {} THEN G
    ELSE LET ep == CHOOSE k \in todo : TRUE
             G1 == IF ~JsIn(ep, props) THEN dropProperty(G, id, isNode, ep) ELSE G
         IN dropMissing(G1, id, isNode, props, todo \ {ep})

\* the second loop of updateProperties, over the names still to visit
RECURSIVE saveEach(_, _, _, _, _)
saveEach(G, id, isNode, props, todo) ==
    IF todo = {} THEN G
    ELSE LET prop == CHOOSE k \in todo : TRUE
         IN saveEach(setProperty(G, id, isNode, prop, props[prop]),
                     id, isNode, props, todo \ {prop})

\* updateProperties(id, g, props, isNode)
updateProperties(G, id, props, isNode) ==
    LET existingProps == valueMap(G, id, isNode)
        first == IF existingProps = <<>> THEN NoProps ELSE existingProps[1]
        G1 == dropMissing(G, id, isNode, props, ForIn(first))
    IN saveEach(G1, id, isNode, props, ForIn(props))

\* g.addV(label).property(t.id, id).next()
addV(G, label, id) ==
    [G EXCEPT !.V = [v \in DOMAIN G.V \cup {id} |->
                        IF v = id THEN [label |-> label, props |-> NoProps]
                        ELSE G.V[v]]]

\* g.V(a).as("a").V(b).addE(label).property(t.id, id).from_("a").next():
\* the edge leaves the vertex stepped "a" and enters the current vertex b;
\* with either vertex missing the traversal has no traverser and adds nothing
addE(G, a, b, label, id) ==
    IF a \notin DOMAIN G.V \/ b \notin DOMAIN G.V THEN G
    ELSE [G EXCEPT !.E = [e \in DOMAIN G.E \cup {id} |->
                        IF e = id
                        THEN [label |-> label, outV |-> a, inV |-> b,
                              props |-> NoProps]
                        ELSE G.E[e]]]

\* the function saveNode passes to query
saveNodeFn(G, node) ==
    LET existing == node.id \in DOMAIN G.V IN
    IF existing
    THEN updateProperties(G, node.id, node.properties, TRUE)
    ELSE updateProperties(addV(G, join(node.labels, "::"), node.id),
                          node.id, node.properties, TRUE)

\* the function saveEdge passes to query
saveEdgeFn(G, edge) ==
    LET existing == edge.id \in DOMAIN G.E IN
    IF existing
    THEN updateProperties(G, edge.id, edge.properties, FALSE)
    ELSE updateProperties(addE(G, edge.to, edge.from, edge.label, edge.id),
                          edge.id, edge.properties, FALSE)

\* the edges `ids` without those in `gone`
dropEdges(G, gone) ==
    [G EXCEPT !.E = [e \in DOMAIN G.E \ gone |-> G.E[e]]]

\* the function deleteNode passes to query: inE().drop(), outE().drop(),
\* then the vertex (the engine drops a vertex with its incident edges)
deleteNodeFn(G, id) ==
    LET G1 == dropEdges(G, {e \in DOMAIN G.E : G.E[e].inV = id})
        G2 == dropEdges(G1, {e \in DOMAIN G1.E : G1.E[e].outV = id})
        G3 == dropEdges(G2, {e \in DOMAIN G2.E :
                                G2.E[e].inV = id \/ G2.E[e].outV = id})
    IN [G3 EXCEPT !.V = [v \in DOMAIN G3.V \ {id} |-> G3.V[v]]]

\* the function deleteEdge passes to query
deleteEdgeFn(G, id) == dropEdges(G, {id})

(***************************************************************************)
(* The store specification: each operation runs to completion on the       *)
(* store with no other writer in between.                                  *)
(***************************************************************************)
\* what an operation found under `id` before it ran: {} when absent, else the
\* element's label, its endpoints (an edge) and its property names
Before(G, id, isNode) ==
    IF id \notin DOMAIN Elements(G, isNode) THEN {}
    ELSE LET el == Elements(G, isNode)[id] IN
         IF isNode
         THEN {[label |-> el.label, keys |-> DOMAIN el.props]}
         ELSE {[label |-> el.label, outV |-> el.outV, inV |-> el.inV,
                keys |-> DOMAIN el.props]}

InitStore ==
    /\ graph = [V |-> NoProps, E |-> NoProps]
    /\ last = [op |-> "none"]

saveNode(node) ==
    /\ graph' = saveNodeFn(graph, node)
    /\ last' = [op |-> "saveNode", node |-> node,
                before |-> Before(graph, node.id, TRUE)]
    /\ UNCHANGED <<retryVars, extractVars, stepVars>>

deleteNode(id) ==
    /\ graph' = deleteNodeFn(graph, id)
    /\ last' = [op |-> "deleteNode", id |-> id]
    /\ UNCHANGED <<retryVars, extractVars, stepVars>>

saveEdge(edge) ==
    /\ graph' = saveEdgeFn(graph, edge)
    /\ last' = [op |-> "saveEdge", edge |-> edge,
                before |-> Before(graph, edge.id, FALSE),
                ends |-> {edge.from, edge.to} \cap DOMAIN graph.V]
    /\ UNCHANGED <<retryVars, extractVars, stepVars>>

deleteEdge(id) ==
    /\ graph' = deleteEdgeFn(graph, id)
    /\ last' = [op |-> "deleteEdge", id |-> id]
    /\ UNCHANGED <<retryVars, extractVars, stepVars>>

\* a direct call of the exported updateProperties
callUpdateProperties(id, props, isNode) ==
    /\ graph' = updateProperties(graph, id, props, isNode)
    /\ last' = [op |-> "updateProperties", id |-> id, props |-> props,
                isNode |-> isNode, before |-> Before(graph, id, isNode)]
    /\ UNCHANGED <<retryVars, extractVars, stepVars>>

\* vertices and their properties
NextStore ==
    \/ \E node \in Nodes : saveNode(node)
    \/ \E id \in VertexIds : deleteNode(id)
    \/ \E id \in VertexIds, props \in PropMaps, isNode \in BOOLEAN :
          callUpdateProperties(id, props, isNode)

(***************************************************************************)
(* Connection.connect and Connection.query.                                *)
(***************************************************************************)
Calls == 1 .. NumCalls

\* An error message is a sequence of fragments: startsWith looks at the first,
\* includes at all of them.
WsNotOpen == "WebSocket is not open"
CME == "ConcurrentModificationException"
ROV == "ReadOnlyViolationException"
Messages == {<<WsNotOpen>>, <<CME>>, <<ROV>>, <<"other">>,
             <<"other", CME>>, <<"other", WsNotOpen>>, <<WsNotOpen, CME>>}

startsWith(msg, frag) == msg[1] = frag
includes(msg, frag) == \E i \in DOMAIN msg : msg[i] = frag

Error(msg) == [name |-> "Error", message |-> msg]

\* how one invocation of the query function may settle
Settlements ==
    {[ok |-> TRUE, value |-> "rows"]}
        \cup {[ok |-> FALSE, error |-> Error(m)] : m \in Messages}

\* The receiver of errorFilter. It is a `function` expression that async.retry
\* invokes as options.errorFilter(err), so `this` is async.retry's options
\* object {times, intervalFunc, errorFilter}, not the Connection.
FilterThis == [times |-> times, intervalFunc |-> "constant", errorFilter |-> "function"]

\* errorFilter with `return true` where line 151 returns false
errorFilter_retriesAll(this, err) ==
    IF startsWith(err.message, "WebSocket is not open")
    THEN IF "connection" \in DOMAIN this THEN "reconnect" ELSE "throw"
    ELSE "retry"

\* errorFilter(err): "throw" when evaluating this.connection.close() raises a
\* TypeError, "reconnect" when it closed, connected and returned true,
\* "retry" for true, "reject" for false
errorFilter(this, err) ==
    IF startsWith(err.message, WsNotOpen)
    THEN IF "connection" \in DOMAIN this THEN "reconnect" ELSE "throw"
    ELSE IF includes(err.message, CME) THEN "retry"
    ELSE IF includes(err.message, ROV) THEN "retry"
    ELSE "reject"

\* async.retry's callback of an attempt:
\*   err && attempt++ < times && errorFilter(err) ? retry : callback(err, result)
afterAttempt(att, settled) ==
    IF settled.ok THEN "resolve"
    ELSE IF att < times THEN errorFilter(FilterThis, settled.error)
    ELSE "reject"

\* a query that catches the error of async.retry and wraps it
Rejection_wrapped(err) ==
    [status |-> "rejected", error |-> [name |-> "RetryExhausted", cause |-> err]]

\* what the promise `return async.retry(...)` hands the caller on failure
Rejection(err) == [status |-> "rejected", error |-> err]

Recognized(msg) ==
    startsWith(msg, WsNotOpen) \/ includes(msg, CME) \/ includes(msg, ROV)

\* a Connection just constructed, and the calls of query it will get
InitCalls(callers) ==
    /\ connection = 0
    /\ open = {}
    /\ created = 0
    /\ pc = [c \in callers |-> "idle"]
    /\ attempt = [c \in callers |-> 0]
    /\ g = [c \in callers |-> 0]
    /\ invocations = [c \in callers |-> 0]
    /\ lastOutcome = [c \in callers |-> {}]
    /\ onlyTransient = [c \in callers |-> TRUE]
    /\ outcome = [c \in callers |-> [status |-> "pending"]]
    /\ reconnects = [c \in callers |-> 0]
    /\ wsFailures = [c \in callers |-> 0]
    /\ uncaught = {}
    /\ struck = {}

InitRetry == InitCalls(Calls)

\* connect(): a new session replaces this.connection; the one it replaces is
\* not closed
connectUpTo(sessions) ==
    /\ created < sessions
    /\ created' = created + 1
    /\ connection' = created + 1
    /\ open' = open \cup {created + 1}
    /\ UNCHANGED <<pc, attempt, g, invocations, lastOutcome, onlyTransient,
                   outcome, reconnects, wsFailures, uncaught, struck>>
    /\ UNCHANGED <<storeVars, extractVars, stepVars>>

connect == connectUpTo(MaxSessions)

\* query(f): binds g to this.connection and starts async.retry, which invokes
\* the task at once
query(c) ==
    /\ pc[c] = "idle"
    /\ g' = [g EXCEPT ![c] = connection]
    /\ attempt' = [attempt EXCEPT ![c] = 1]
    /\ invocations' = [invocations EXCEPT ![c] = 1]
    /\ pc' = [pc EXCEPT ![c] = "attempting"]
    /\ UNCHANGED <<connection, open, created, lastOutcome, onlyTransient,
                   outcome, reconnects, wsFailures, uncaught, struck>>
    /\ UNCHANGED <<storeVars, extractVars, stepVars>>

\* f(g) settles and async.retry's callback runs
attemptSettles(c, settled) ==
    /\ pc[c] = "attempting"
    /\ LET verdict == afterAttempt(attempt[c], settled)
           fresh == created + 1
       IN
       /\ pc' = [pc EXCEPT ![c] =
                    CASE verdict = "resolve" -> "resolved"
                      [] verdict = "reject" -> "rejected"
                      [] verdict = "throw" -> "faulted"
                      [] OTHER -> "waiting"]
       /\ attempt' = [attempt EXCEPT ![c] = IF settled.ok THEN @ ELSE @ + 1]
       /\ outcome' = [outcome EXCEPT ![c] =
                    CASE verdict = "resolve" ->
                            [status |-> "resolved", value |-> settled.value]
                      [] verdict = "reject" -> Rejection(settled.error)
                      [] OTHER -> @]
       /\ uncaught' = IF verdict = "throw"
                      THEN uncaught \cup {"TypeError in errorFilter"}
                      ELSE uncaught
       \* this.connection.close(); this.connect(); g = traversal()...
       /\ open' = IF verdict = "reconnect"
                  THEN (open \ {connection}) \cup {fresh} ELSE open
       /\ connection' = IF verdict = "reconnect" THEN fresh ELSE connection
       /\ created' = IF verdict = "reconnect" THEN fresh ELSE created
       /\ g' = [g EXCEPT ![c] = IF verdict = "reconnect" THEN fresh ELSE @]
       /\ reconnects' = [reconnects EXCEPT ![c] =
                    IF verdict = "reconnect" THEN @ + 1 ELSE @]
    /\ lastOutcome' = [lastOutcome EXCEPT ![c] = {settled}]
    /\ onlyTransient' = [onlyTransient EXCEPT ![c] =
                    @ /\ ~settled.ok /\ Recognized(settled.error.message)]
    /\ wsFailures' = [wsFailures EXCEPT ![c] =
                    IF ~settled.ok /\ startsWith(settled.error.message, WsNotOpen)
                    THEN @ + 1 ELSE @]
    /\ UNCHANGED <<invocations, struck>>
    /\ UNCHANGED <<storeVars, extractVars, stepVars>>

\* the interval has passed: async.retry invokes the task again
retryAttempt(c) ==
    /\ pc[c] = "waiting"
    /\ pc' = [pc EXCEPT ![c] = "attempting"]
    /\ invocations' = [invocations EXCEPT ![c] = @ + 1]
    /\ UNCHANGED <<connection, open, created, attempt, g, lastOutcome,
                   onlyTransient, outcome, reconnects, wsFailures, uncaught,
                   struck>>
    /\ UNCHANGED <<storeVars, extractVars, stepVars>>

InFlight(c) == pc[c] \in {"attempting", "waiting"}

\* the session emits "close" and the handler registered by connect() runs
closeEvent(s, code) ==
    /\ s \in open
    /\ open' = open \ {s}
    /\ uncaught' = IF code = AbnormalClose
                   THEN uncaught \cup {"Connection closed prematurely"}
                   ELSE uncaught
    /\ struck' = IF code = AbnormalClose
                 THEN struck \cup {c \in DOMAIN pc : InFlight(c) /\ g[c] = s}
                 ELSE struck
    /\ UNCHANGED <<connection, created, pc, attempt, g, invocations,
                   lastOutcome, onlyTransient, outcome, reconnects, wsFailures>>
    /\ UNCHANGED <<storeVars, extractVars, stepVars>>

CloseCodes == {1000, AbnormalClose}

NextRetry ==
    \/ connect
    \/ \E c \in Calls : query(c)
    \/ \E c \in Calls, settled \in Settlements : attemptSettles(c, settled)
    \/ \E c \in Calls : retryAttempt(c)
    \/ \E s \in open, code \in CloseCodes : closeEvent(s, code)

\* calls of query in flight together while connect() is called again
ConcurrentCalls == 1 .. NumConcurrent

ConcurrentSettlements ==
    {[ok |-> TRUE, value |-> "rows"]}
        \cup {[ok |-> FALSE, error |-> Error(m)] :
                m \in {<<WsNotOpen>>, <<CME>>, <<"other">>}}

NextConcurrent ==
    \/ connectUpTo(MaxConnects)
    \/ \E c \in ConcurrentCalls : query(c)
    \/ \E c \in ConcurrentCalls, settled \in ConcurrentSettlements :
          attemptSettles(c, settled)
    \/ \E c \in ConcurrentCalls : retryAttempt(c)
    \/ \E s \in open : closeEvent(s, 1000)

(***************************************************************************)
(* The extraction Connection.search does on what its traversals return.    *)
(* A JavaScript value that may or may not be an array is tagged:           *)
(* [isArray |-> TRUE, items |-> <<...>>] or [isArray |-> FALSE, value |-> x]*)
(***************************************************************************)
Scalar(x) == [isArray |-> FALSE, value |-> x]
Array(xs) == [isArray |-> TRUE, items |-> xs]

\* identifiers in what the traversals return
RawVertexIds == {"v1", "v2", "v3"}
RawEdgeIds == {"e1", "e2", "e3"}

\* one raw node (a valueMap(true) map): id, label and the property names
RawNodeSet ==
    {[id |-> i, label |-> Scalar("person")] : i \in RawVertexIds}
        \cup {[id |-> i, label |-> Scalar("person"), name |-> Array(<<1>>)] :
                i \in RawVertexIds}

\* one raw edge (an elementMap map): id, label, IN, OUT and the properties
RawEdge(i, l, a, b) ==
    [k \in {"id", "label", "IN", "OUT"} |->
        CASE k = "id" -> i
          [] k = "label" -> l
          [] k = "IN" -> [id |-> a, label |-> "person"]
          [] OTHER -> [id |-> b, label |-> "person"]]

RawEdgeSet ==
    {RawEdge(i, "owns", a, b) :
        i \in RawEdgeIds, a \in RawVertexIds, b \in RawVertexIds}

\* the sequences over S of length n
Tuples(S, n) == [1 .. n -> S]
SeqsUpTo(S, n) == UNION {Tuples(S, k) : k \in 0 .. n}

\* elements have distinct identifiers
DistinctIds(xs) == \A i, j \in DOMAIN xs : xs[i].id = xs[j].id => i = j

\* lines 341-349 with `val.length > 0` for `val.length === 1`
unwrap_first(val) ==
    IF val.isArray
    THEN IF Len(val.items) > 0 THEN Scalar(val.items[1]) ELSE val
    ELSE val

\* lines 341-349: a one-element array becomes its element
unwrap(val) ==
    IF val.isArray
    THEN IF Len(val.items) = 1 THEN Scalar(val.items[1]) ELSE val
    ELSE val

\* lines 327-352: the node built from raw node n
extractNode(n) ==
    [id |-> n.id,
     labels |-> IF n.label.isArray THEN n.label.items ELSE <<n.label.value>>,
     properties |-> [p \in DOMAIN n \ {"id", "label"} |-> unwrap(n[p])]]

\* lines 367-374 with IN read as the edge's to and OUT as its from
extractEdge_outIsFrom(e) ==
    [id |-> IF "id" \in DOMAIN e THEN e.id ELSE "",
     label |-> IF "label" \in DOMAIN e THEN e.label ELSE "",
     from |-> IF "OUT" \in DOMAIN e THEN e["OUT"].id ELSE "",
     to |-> IF "IN" \in DOMAIN e THEN e["IN"].id ELSE "",
     properties |-> [k \in DOMAIN e \ {"id", "label", "IN", "OUT"} |-> e[k]]]

\* lines 355-381: the edge built from raw edge e
extractEdge(e) ==
    [id |-> IF "id" \in DOMAIN e THEN e.id ELSE "",
     label |-> IF "label" \in DOMAIN e THEN e.label ELSE "",
     from |-> IF "IN" \in DOMAIN e THEN e["IN"].id ELSE "",
     to |-> IF "OUT" \in DOMAIN e THEN e["OUT"].id ELSE "",
     properties |-> [k \in DOMAIN e \ {"id", "label", "IN", "OUT"} |-> e[k]]]

nodeExists(nodes, id) == \E i \in DOMAIN nodes : nodes[i].id = id

\* line 382 with || for &&
keepEdge_either(nodes, edge) ==
    nodeExists(nodes, edge.from) \/ nodeExists(nodes, edge.to)

\* line 382: the test an extracted edge must pass to be returned
keepEdge(nodes, edge) == nodeExists(nodes, edge.from) /\ nodeExists(nodes, edge.to)

extractNodes(raws) == [i \in DOMAIN raws |-> extractNode(raws[i])]

\* the loop of lines 354-385
RECURSIVE extractEdges(_, _)
extractEdges(raws, nodes) ==
    IF raws = <<>> THEN <<>>
    ELSE LET edge == extractEdge(Head(raws))
             rest == extractEdges(Tail(raws), nodes)
         IN IF keepEdge(nodes, edge) THEN <<edge>> \o rest ELSE rest

\* what valueMap(true) may hold under a property name, and under label
RawValues ==
    {Scalar(v) : v \in Vals} \cup {Array(xs) : xs \in SeqsUpTo(Vals, MaxItems)}
RawLabels == {Scalar("person"), Array(<<"person", "owner">>)}

\* the raw nodes with any of the property names under any raw value
RichRawNodes ==
    UNION {{[k \in {"id", "label"} \cup K |->
                CASE k = "id" -> i [] k = "label" -> l [] OTHER -> vals[k]] :
              i \in RawVertexIds, l \in RawLabels, vals \in [K -> RawValues]} :
           K \in SUBSET Keys}

\* no search has run
InitExtract ==
    /\ rawNodes = <<>>
    /\ rawEdges = <<>>
    /\ found = {}

\* the traversals of a search have returned
InitRaw ==
    /\ rawNodes \in {ns \in SeqsUpTo(RawNodeSet, MaxRaw) : DistinctIds(ns)}
    /\ rawEdges \in {es \in SeqsUpTo(RawEdgeSet, MaxRaw) : DistinctIds(es)}
    /\ found = {}

\* the vertex traversal has returned one raw node, of any shape
InitRich ==
    /\ rawNodes \in {<<n>> : n \in RichRawNodes}
    /\ rawEdges = <<>>
    /\ found = {}

\* lines 324-389
extract ==
    /\ found = {}
    /\ LET nodes == extractNodes(rawNodes)
       IN found' = {[nodes |-> nodes, edges |-> extractEdges(rawEdges, nodes)]}
    /\ UNCHANGED <<rawNodes, rawEdges, storeVars, retryVars, stepVars>>

NextExtract == extract

(***************************************************************************)
(* Connection.search on the store: the traversals it sends, then the       *)
(* extraction above on what they return.                                   *)
(***************************************************************************)
\* the elements of a finite set as a sequence, in the order the store lists them
RECURSIVE SeqOf(_)
SeqOf(S) ==
    IF S = {} THEN <<>>
    ELSE LET x == CHOOSE y \in S : TRUE IN <<x>> \o SeqOf(S \ {x})

\* dedup(): a sequence without its repeated elements, first occurrences kept
RECURSIVE dedup(_)
dedup(xs) ==
    IF xs = <<>> THEN <<>>
    ELSE LET front == dedup(SubSeq(xs, 1, Len(xs) - 1))
             x == xs[Len(xs)]
         IN IF \E i \in DOMAIN front : front[i] = x THEN front
            ELSE Append(front, x)

\* valueMap(true) of vertex v: id, label and every property as a list
rawNodeOf(G, v) ==
    [k \in {"id", "label"} \cup DOMAIN G.V[v].props |->
        CASE k = "id" -> v
          [] k = "label" -> Scalar(G.V[v].label)
          [] OTHER -> Array(<<G.V[v].props[k]>>)]

\* elementMap() of edge e: id, label, the two ends and the properties
rawEdgeOf(G, e) ==
    [k \in {"id", "label", "IN", "OUT"} \cup DOMAIN G.E[e].props |->
        CASE k = "id" -> e
          [] k = "label" -> G.E[e].label
          [] k = "IN" -> [id |-> G.E[e].inV, label |-> G.V[G.E[e].inV].label]
          [] k = "OUT" -> [id |-> G.E[e].outV, label |-> G.V[G.E[e].outV].label]
          [] OTHER -> G.E[e].props[k]]

\* V().has(label, key, value)
has(G, focus) ==
    {v \in DOMAIN G.V :
        /\ G.V[v].label = focus.label
        /\ focus.key \in DOMAIN G.V[v].props
        /\ G.V[v].props[focus.key] = focus.value}

\* bothE() from vertex v: its outgoing edges, then its incoming edges
bothE(G, v) ==
    SeqOf({e \in DOMAIN G.E : G.E[e].outV = v})
        \o SeqOf({e \in DOMAIN G.E : G.E[e].inV = v})

\* bothV() from each edge of es: its out-vertex, then its in-vertex
RECURSIVE bothV(_, _)
bothV(G, es) ==
    IF es = <<>> THEN <<>>
    ELSE <<G.E[Head(es)].outV, G.E[Head(es)].inV>> \o bothV(G, Tail(es))

\* the vertices bothE().bothV() reaches from each vertex of vs
RECURSIVE neighbourhood(_, _)
neighbourhood(G, vs) ==
    IF vs = <<>> THEN <<>>
    ELSE bothV(G, bothE(G, Head(vs))) \o neighbourhood(G, Tail(vs))

\* lines 308-318: options.focus is {} when not given
searchRawNodes(G, options) ==
    LET ids == IF options.focus # {}
               THEN LET focus == CHOOSE f \in options.focus : TRUE
                    IN dedup(neighbourhood(G, SeqOf(has(G, focus))))
               ELSE SeqOf(DOMAIN G.V)
    IN [i \in DOMAIN ids |-> rawNodeOf(G, ids[i])]

\* line 321
searchRawEdges(G) ==
    LET ids == SeqOf(DOMAIN G.E) IN [i \in DOMAIN ids |-> rawEdgeOf(G, ids[i])]

\* lines 306-390: what search resolves with
searchFn(G, options) ==
    LET nodes == extractNodes(searchRawNodes(G, options))
    IN [nodes |-> nodes, edges |-> extractEdges(searchRawEdges(G), nodes)]

\* the last operation that wrote to the store
LastWrite == IF last.op = "search" THEN last.after ELSE last

search(options) ==
    /\ last' = [op |-> "search", options |-> options,
                result |-> searchFn(graph, options), after |-> LastWrite]
    /\ UNCHANGED <<graph, retryVars, extractVars, stepVars>>

NoFocus == [focus |-> {}]

\* edges between vertices that carry no properties
NextEdge ==
    \/ \E node \in BareNodes : saveNode(node)
    \/ \E id \in VertexIds : deleteNode(id)
    \/ \E edge \in Edges : saveEdge(edge)
    \/ \E id \in EdgeIds : deleteEdge(id)
    \/ \E id \in EdgeIds, props \in PropMaps, isNode \in BOOLEAN :
          callUpdateProperties(id, props, isNode)

\* the edges search is followed on: at most the property "name"
NamedEdges == {edge \in Edges : DOMAIN edge.properties \subseteq {"name"}}

\* saves and deletions, each followed or not by a search of everything
NextSearch ==
    \/ \E node \in BareNodes : saveNode(node)
    \/ \E id \in VertexIds : deleteNode(id)
    \/ \E edge \in NamedEdges : saveEdge(edge)
    \/ \E id \in EdgeIds : deleteEdge(id)
    \/ search(NoFocus)

(***************************************************************************)
(* search with options.focus, on every store of up to three vertices,      *)
(* named or not, and up to three edges between them (each is what saveNode *)
(* and saveEdge leave behind).                                             *)
(***************************************************************************)
FocusVertexIds == {"v1", "v2", "v3"}
FocusEdgeIds == {"e1", "e2", "e3"}

FocusVertices ==
    UNION {[ids -> [label : {"person"}, props : {NoProps, [name |-> 1]}]] :
              ids \in SUBSET FocusVertexIds}

FocusEdgesOver(ids) ==
    UNION {[es -> [label : {"owns"}, outV : ids, inV : ids, props : {NoProps}]] :
              es \in SUBSET FocusEdgeIds}

FocusGraphs ==
    UNION {{[V |-> vs, E |-> es] : es \in FocusEdgesOver(DOMAIN vs)} :
              vs \in FocusVertices}

\* options.focus as given by the caller
NameIsOne == [label |-> "person", key |-> "name", value |-> 1]
Focus == [focus |-> {NameIsOne}]

NextFocus == \E options \in {NoFocus, Focus} : search(options)

(***************************************************************************)
(* The operations one awaited traversal at a time, under query's retry: a  *)
(* traversal may fail, and after a ConcurrentModificationException or a    *)
(* ReadOnlyViolationException the function starts again from its first     *)
(* traversal, up to `times` attempts.  One operation runs at a time.       *)
(***************************************************************************)
\* lines 204-206 with the vertex dropped first
deleteNodeSteps_vertexFirst == <<"V", "inE", "outE">>

\* lines 204-206: the traversals of deleteNode, in the order it awaits them
deleteNodeSteps == <<"inE", "outE", "V">>

\* one traversal of deleteNode (the engine drops a vertex with its edges)
deleteNodeStep(G, id, s) ==
    CASE s = "inE" -> dropEdges(G, {e \in DOMAIN G.E : G.E[e].inV = id})
      [] s = "outE" -> dropEdges(G, {e \in DOMAIN G.E : G.E[e].outV = id})
      [] OTHER ->
            LET G1 == dropEdges(G, {e \in DOMAIN G.E :
                                      G.E[e].inV = id \/ G.E[e].outV = id})
            IN [G1 EXCEPT !.V = [v \in DOMAIN G1.V \ {id} |-> G1.V[v]]]

Saves == {"saveNode", "saveEdge"}
Stopped == {"done", "failed"}

\* the first traversal of an operation's function
FirstStep(op) ==
    CASE op \in Saves -> "lookup"
      [] op = "deleteNode" -> deleteNodeSteps[1]
      [] OTHER -> "traverse"

\* what a search remembers of the operation that ended before it
Brief(t) == [op |-> t.op, pc |-> t.pc, arg |-> t.arg, attempt |-> t.attempt]

Idle == [op |-> "none", pc |-> "done", arg |-> "", attempt |-> 0]

\* one issued mutation
Issued(what, key) == [step |-> what, key |-> key]

\* updateProperties after its first loop: the second loop, if it has any turn
afterDrops(t) ==
    IF ForIn(t.arg.properties) = {} THEN [t EXCEPT !.pc = "done", !.todo = {}]
    ELSE [t EXCEPT !.pc = "save", !.todo = ForIn(t.arg.properties)]

\* the store and the operation after its next traversal has returned
Advance(G, t) ==
    LET isNode == t.op = "saveNode"
        id == IF t.op \in Saves THEN t.arg.id ELSE t.arg
    IN CASE t.op \in Saves /\ t.pc = "lookup" ->
              \* lines 176-179, 222-225
              [graph |-> G,
               task |-> [t EXCEPT !.pc = IF id \in DOMAIN Elements(G, isNode)
                                         THEN "fetch" ELSE "create"]]
         [] t.op \in Saves /\ t.pc = "create" ->
              \* lines 185-187, 231-237
              [graph |-> IF isNode THEN addV(G, join(t.arg.labels, "::"), id)
                         ELSE addE(G, t.arg.to, t.arg.from, t.arg.label, id),
               task |-> [t EXCEPT !.pc = "fetch",
                                  !.log = Append(@, Issued("add", id))]]
         [] t.op \in Saves /\ t.pc = "fetch" ->
              \* lines 407-415: the names the first loop will drop
              LET existingProps == valueMap(G, id, isNode)
                  first == IF existingProps = <<>> THEN NoProps
                           ELSE existingProps[1]
                  drops == {ep \in ForIn(first) : ~JsIn(ep, t.arg.properties)}
                  t1 == [t EXCEPT !.current = first]
              IN [graph |-> G,
                  task |-> IF drops = {} THEN afterDrops(t1)
                           ELSE [t1 EXCEPT !.pc = "drop", !.todo = drops]]
         [] t.op \in Saves /\ t.pc = "drop" ->
              \* line 412
              LET ep == CHOOSE k \in t.todo : TRUE
                  t1 == [t EXCEPT !.todo = @ \ {ep},
                                  !.log = Append(@, Issued("drop", ep))]
              IN [graph |-> dropProperty(G, id, isNode, ep),
                  task |-> IF t1.todo = {} THEN afterDrops(t1) ELSE t1]
         [] t.op \in Saves /\ t.pc = "save" ->
              \* lines 420-433
              LET prop == CHOOSE k \in t.todo : TRUE
                  t1 == [t EXCEPT !.todo = @ \ {prop},
                                  !.log = Append(@, Issued("set", prop))]
              IN [graph |-> setProperty(G, id, isNode, prop,
                                        t.arg.properties[prop]),
                  task |-> IF t1.todo = {} THEN [t1 EXCEPT !.pc = "done"]
                           ELSE t1]
         [] t.op = "deleteNode" ->
              \* lines 204-206
              LET i == CHOOSE j \in DOMAIN deleteNodeSteps :
                            deleteNodeSteps[j] = t.pc
              IN [graph |-> deleteNodeStep(G, id, t.pc),
                  task |-> [t EXCEPT !.pc = IF i = Len(deleteNodeSteps)
                                            THEN "done"
                                            ELSE deleteNodeSteps[i + 1],
                                     !.log = Append(@, Issued(t.pc, id))]]
         [] OTHER ->
              \* search, lines 306-390
              [graph |-> G,
               task |-> [t EXCEPT !.pc = "done",
                                  !.result = {searchFn(G, t.arg)}]]

InitTask == task = Idle

\* an operation is called once the one before it has ended
begin(op, arg) ==
    /\ task.pc \in Stopped
    /\ task' = [op |-> op, arg |-> arg, pc |-> FirstStep(op), attempt |-> 1,
                todo |-> {}, log |-> <<>>, current |-> NoProps,
                start |-> graph, result |-> {},
                after |-> IF op = "search" THEN Brief(task) ELSE Brief(Idle)]
    /\ UNCHANGED <<storeVars, retryVars, extractVars>>

\* the next traversal of the running operation returns
step ==
    /\ task.pc \notin Stopped
    /\ graph' = Advance(graph, task).graph
    /\ task' = Advance(graph, task).task
    /\ UNCHANGED <<last, retryVars, extractVars>>

\* the next traversal of the running operation fails: lines 121-152 start the
\* function again after a retryable error while attempts are left
fail(retryable) ==
    /\ task.pc \notin Stopped
    /\ task' = IF retryable /\ task.attempt < times
               THEN [task EXCEPT !.pc = FirstStep(task.op), !.attempt = @ + 1,
                                 !.todo = {}, !.log = <<>>,
                                 !.current = NoProps]
               ELSE [task EXCEPT !.pc = "failed"]
    /\ UNCHANGED <<storeVars, retryVars, extractVars>>

\* the vertex whose saves are followed traversal by traversal
StepNodes == {n \in Nodes : n.id = "v1"}

NextSave ==
    \/ \E node \in StepNodes : begin("saveNode", node)
    \/ step
    \/ \E retryable \in BOOLEAN : fail(retryable)

BareEdges == {edge \in Edges : edge.properties = <<>>}

NextDelete ==
    \/ \E node \in BareNodes : begin("saveNode", node)
    \/ \E edge \in BareEdges : begin("saveEdge", edge)
    \/ \E id \in VertexIds : begin("deleteNode", id)
    \/ begin("search", NoFocus)
    \/ step
    \/ \E retryable \in BOOLEAN : fail(retryable)

(***************************************************************************)
(* The claims.                                                             *)
(***************************************************************************)
Terminal == {"resolved", "rejected", "faulted"}

\* the error of the latest invocation of call c, as a set: {} or {error}
LastError(c) == {s.error : s \in {x \in lastOutcome[c] : ~x.ok}}

\* C1: after updateProperties(id, g, P, isNode) on an existing element, with
\* no other writer, the element's property mapping is exactly P.
C1_ReconcileExact ==
    (last.op = "updateProperties" /\ last.before # {})
        => Elements(graph, last.isNode)[last.id].props = last.props

\* C2: a query function that fails every time with a retryable error
\* (ConcurrentModificationException, ReadOnlyViolationException or "WebSocket
\* is not open") is invoked exactly 5 times, and then the call fails.
C2_FiveAttemptsThenFail ==
    \A c \in Calls :
        (pc[c] \in Terminal /\ onlyTransient[c])
            => (invocations[c] = times /\ pc[c] = "rejected")

C4_ReconnectPerSocketError ==
    \A c \in Calls :
        /\ reconnects[c] = wsFailures[c]
        /\ \A err \in LastError(c) :
              (startsWith(err.message, WsNotOpen) /\ invocations[c] < times)
                  => (InFlight(c) /\ g[c] = connection /\ g[c] \in open)

\* C5: an attempt that fails with an error matching none of the three
\* recognized conditions, be it the first or a later attempt, ends the call:
\* the caller receives that same error, nothing reconnects, and the query
\* function is not invoked again.
C5_UnrecognizedPropagates ==
    [][\A c \in Calls :
          /\ (pc[c] = "attempting" /\ pc'[c] # "attempting")
                => \A err \in LastError(c)' :
                      ~Recognized(err.message)
                          => /\ pc'[c] = "rejected"
                             /\ outcome'[c] = [status |-> "rejected", error |-> err]
                             /\ connection' = connection
                             /\ open' = open
                             /\ reconnects' = reconnects
          /\ pc[c] = "rejected"
                => /\ pc'[c] = "rejected"
                   /\ invocations'[c] = invocations[c]
                   /\ outcome'[c] = outcome[c]]_vars

\* C5's case: a third attempt failed with an unrecognized error and the caller
\* has received it
C5_RejectedOnLaterAttempt ==
    \E c \in Calls :
        /\ pc[c] = "rejected"
        /\ invocations[c] = 3
        /\ \E err \in LastError(c) :
              ~Recognized(err.message) /\ outcome[c].error = err

\* C6: after k < 5 consecutive attempts that failed with recognized transient
\* errors the call goes on to attempt k+1, and when that attempt succeeds the
\* caller receives its result and no error.
C6_TransientThenSuccess ==
    \A c \in Calls :
        /\ (lastOutcome[c] # {} /\ onlyTransient[c] /\ invocations[c] < times)
              => InFlight(c)
        /\ \A s \in lastOutcome[c] :
              s.ok => outcome[c] = [status |-> "resolved", value |-> s.value]

\* C7: when a session closes with code 1006 while a call is in flight on it,
\* that call fails with the error, and the error is not thrown inside the
\* event callback where no caller receives it.
C7_AbnormalCloseDelivered ==
    struck # {}
        => /\ "Connection closed prematurely" \notin uncaught
           /\ \A c \in struck : pc[c] = "rejected"

\* the identifiers of the nodes search returned
FoundNodeIds(r) == {r.nodes[i].id : i \in DOMAIN r.nodes}
FoundEdges(r) == {r.edges[i] : i \in DOMAIN r.edges}

\* C8: an extracted edge is among the returned edges if and only if both its
\* from and its to are identifiers of returned nodes; so every returned edge
\* has both endpoints among the returned nodes.
C8_EdgeIffBothEndpoints ==
    \A r \in found :
        /\ \A i \in DOMAIN rawEdges :
              LET edge == extractEdge(rawEdges[i]) IN
              edge \in FoundEdges(r)
                  <=> (edge.from \in FoundNodeIds(r) /\ edge.to \in FoundNodeIds(r))
        /\ \A edge \in FoundEdges(r) :
              /\ edge.from \in FoundNodeIds(r) /\ edge.to \in FoundNodeIds(r)
              /\ \E i \in DOMAIN rawEdges : edge = extractEdge(rawEdges[i])

\* C8's case: of two raw edges one is returned and the other, with only one
\* endpoint among the nodes, is dropped
C8_OneKeptOneDropped ==
    \E r \in found :
        /\ Len(r.edges) = 1
        /\ \E i \in DOMAIN rawEdges :
              LET edge == extractEdge(rawEdges[i]) IN
              /\ edge \notin FoundEdges(r)
              /\ (edge.from \in FoundNodeIds(r)) # (edge.to \in FoundNodeIds(r))

\* C9: saveNode(node) leaves a vertex node.id whose properties are exactly
\* node.properties; its label is the joined node.labels when the vertex was
\* created, and the label it had when it existed already.
C9_SaveNodeUpsert ==
    last.op = "saveNode"
        => /\ last.node.id \in DOMAIN graph.V
           /\ graph.V[last.node.id].props = last.node.properties
           /\ last.before = {}
                 => graph.V[last.node.id].label = join(last.node.labels, "::")
           /\ \A b \in last.before : graph.V[last.node.id].label = b.label

\* C10: saveEdge(edge) on a new edge id, between existing vertices, creates an
\* edge edge.id with label edge.label that leaves (out) edge.from and enters
\* (in) edge.to.
C10_EdgeFromTo ==
    (last.op = "saveEdge" /\ last.before = {}
        /\ last.ends = {last.edge.from, last.edge.to})
        => /\ last.edge.id \in DOMAIN graph.E
           /\ graph.E[last.edge.id].label = last.edge.label
           /\ graph.E[last.edge.id].outV = last.edge.from
           /\ graph.E[last.edge.id].inV = last.edge.to

\* C11: when saveEdge(e) has created a new edge between two vertices that
\* exist, a following search({}) returns an edge with e's id, label, from, to
\* and properties (from and to not exchanged), and it returns an edge with e's
\* id only with both e.from and e.to among the returned nodes.
C11_SavedEdgeFound ==
    (/\ last.op = "search" /\ last.options = NoFocus
     /\ last.after.op = "saveEdge" /\ last.after.before = {}
     /\ last.after.ends = {last.after.edge.from, last.after.edge.to})
        => LET e == last.after.edge
               r == last.result
           IN /\ \E i \in DOMAIN r.edges :
                    r.edges[i] = [id |-> e.id, label |-> e.label,
                                  from |-> e.from, to |-> e.to,
                                  properties |-> e.properties]
              /\ \A i \in DOMAIN r.edges :
                    r.edges[i].id = e.id
                        => nodeExists(r.nodes, e.from) /\ nodeExists(r.nodes, e.to)

\* C11's case: a search after a new edge with a property was saved from one
\* vertex to another
C11_NewEdgeSearched ==
    /\ last.op = "search" /\ last.options = NoFocus
    /\ last.after.op = "saveEdge" /\ last.after.before = {}
    /\ last.after.ends = {last.after.edge.from, last.after.edge.to}
    /\ last.after.edge.from # last.after.edge.to
    /\ DOMAIN last.after.edge.properties # {}
    /\ Len(last.result.edges) = 1

\* the traversals the running operation has issued in this attempt
LogSteps == [i \in DOMAIN task.log |-> task.log[i].step]

\* C12: a search({}) after deleteNode(id) completed returns no node with that
\* id and no edge whose from or to is that id; deleteNode drops the incoming
\* edges, then the outgoing edges, then the vertex, in that order, and at no
\* point, whatever traversal fails, does an edge reference a vertex that is
\* no longer in the store.
C12_DeleteNodeLeavesNoTrace ==
    /\ (/\ task.op = "search" /\ task.pc = "done" /\ task.arg = NoFocus
        /\ task.after.op = "deleteNode" /\ task.after.pc = "done")
           => \A r \in task.result :
                 /\ \A i \in DOMAIN r.nodes : r.nodes[i].id # task.after.arg
                 /\ \A i \in DOMAIN r.edges :
                       /\ r.edges[i].from # task.after.arg
                       /\ r.edges[i].to # task.after.arg
    /\ task.op = "deleteNode"
           => /\ LogSteps = SubSeq(<<"inE", "outE", "V">>, 1, Len(LogSteps))
              /\ task.pc = "done" => Len(LogSteps) = 3
    /\ \A e \in DOMAIN graph.E :
           graph.E[e].outV \in DOMAIN graph.V /\ graph.E[e].inV \in DOMAIN graph.V

\* C12's case: a search returns the other vertex after a deleteNode that had
\* a traversal fail, was started again and completed
C12_SearchedAfterRetriedDelete ==
    /\ task.op = "search" /\ task.pc = "done" /\ task.arg = NoFocus
    /\ task.after.op = "deleteNode" /\ task.after.pc = "done"
    /\ task.after.attempt > 1
    /\ \E r \in task.result : Len(r.nodes) = 1

\* the identifiers of the nodes and the edges the last search returned
ResultNodeIds == {last.result.nodes[i].id : i \in DOMAIN last.result.nodes}
ResultEdgeIds == {last.result.edges[i].id : i \in DOMAIN last.result.edges}

\* the vertices an edge connects to vertex v
Neighbours(v) ==
    {graph.E[e].inV : e \in {x \in DOMAIN graph.E : graph.E[x].outV = v}}
        \cup {graph.E[e].outV : e \in {x \in DOMAIN graph.E : graph.E[x].inV = v}}

\* C13: a search with options.focus returns among its nodes the focal vertex
\* and every vertex an edge connects to it, each once; also when the focal
\* vertex has no edge.
C13_FocusNodes ==
    (last.op = "search" /\ last.options = Focus)
        => /\ \A f \in has(graph, NameIsOne) :
                 f \in ResultNodeIds /\ Neighbours(f) \subseteq ResultNodeIds
           /\ DistinctIds(last.result.nodes)

\* C14: a search with options.focus returns exactly the edges that touch the
\* focal vertex: every returned edge has it as its from or its to.
C14_FocusEdges ==
    (last.op = "search" /\ last.options = Focus)
        => ResultEdgeIds =
              {e \in DOMAIN graph.E :
                  \/ graph.E[e].outV \in has(graph, NameIsOne)
                  \/ graph.E[e].inV \in has(graph, NameIsOne)}

\* C15: node extraction returns a property value that is a list of exactly
\* one element as that element, a list of none or of two or more elements
\* unchanged, and any other value unchanged; id and label are never among
\* the properties; a label that is not a list becomes a one-element labels.
C15_NodeExtraction ==
    \A r \in found :
        /\ Len(r.nodes) = Len(rawNodes)
        /\ \A i \in DOMAIN rawNodes :
              LET n == rawNodes[i]
                  node == r.nodes[i]
              IN /\ node.id = n.id
                 /\ DOMAIN node.properties = DOMAIN n \ {"id", "label"}
                 /\ \A p \in DOMAIN node.properties :
                       IF n[p].isArray /\ Len(n[p].items) = 1
                       THEN node.properties[p] = Scalar(n[p].items[1])
                       ELSE node.properties[p] = n[p]
                 /\ ~n.label.isArray => node.labels = <<n.label.value>>

\* C15's case: a node extracted from a raw node with a one-element list under
\* one name, a longer list under another and a label that is no list
C15_MixedNodeExtracted ==
    /\ found # {}
    /\ \E i \in DOMAIN rawNodes :
          /\ ~rawNodes[i].label.isArray
          /\ DOMAIN rawNodes[i] = {"id", "label"} \cup Keys
          /\ rawNodes[i]["name"].isArray /\ Len(rawNodes[i]["name"].items) = 1
          /\ rawNodes[i]["constructor"].isArray
          /\ Len(rawNodes[i]["constructor"].items) = 2

\* C16: whatever connect() calls, reconnects and queries a Connection has
\* seen, at most one session it created is open: a session that has been
\* replaced has been closed.
C16_OneSessionOpen == Cardinality(open) <= 1

C18_NoCallLeftPending ==
    \A c \in Calls :
        (pc[c] # "idle" /\ outcome[c].status = "pending") => InFlight(c)

\* the property names the running operation has issued a mutation of this kind for
LogKeys(what) == {task.log[i].key : i \in {j \in DOMAIN task.log : task.log[j].step = what}}

\* C19: updateProperties issues only the mutations needed to converge: a
\* removal for exactly the names in the current mapping and not in the
\* desired one, and an add/update only for the names of the desired mapping
\* that the current one lacks or holds with another value; none when the two
\* mappings are equal.
C19_MinimalMutations ==
    (task.op \in Saves /\ task.pc = "done")
        => LET C == task.current
               P == task.arg.properties
           IN /\ LogKeys("drop") = DOMAIN C \ DOMAIN P
              /\ LogKeys("set") =
                    {k \in DOMAIN P : k \notin DOMAIN C \/ C[k] # P[k]}

\* C20: when an attempt of saveNode or saveEdge has failed with a retryable
\* error after any of its traversals and a later attempt has completed, the
\* store is as one uninterrupted save would have left it: the element is
\* there once, with exactly the supplied properties.
C20_RetriedSaveAsOneSave ==
    (task.op \in Saves /\ task.pc = "done" /\ task.attempt > 1)
        => LET isNode == task.op = "saveNode"
           IN /\ graph = IF isNode THEN saveNodeFn(task.start, task.arg)
                         ELSE saveEdgeFn(task.start, task.arg)
              /\ task.arg.id \in DOMAIN Elements(graph, isNode)
              /\ Elements(graph, isNode)[task.arg.id].props = task.arg.properties

(***************************************************************************)
(* The specifications.                                                     *)
(***************************************************************************)
Init == InitStore /\ InitRetry /\ InitExtract /\ InitTask

Spec == Init /\ [][NextStore]_vars

SpecEdge == Init /\ [][NextEdge]_vars

SpecSearch == Init /\ [][NextSearch]_vars

\* every store a focus search may meet
InitFocus ==
    /\ graph \in FocusGraphs
    /\ last = [op |-> "none"]
    /\ InitRetry /\ InitExtract /\ InitTask

SpecFocus == InitFocus /\ [][NextFocus]_vars

SpecSave == Init /\ [][NextSave]_vars

SpecDelete == Init /\ [][NextDelete]_vars

SpecRetry == Init /\ [][NextRetry]_vars

InitConcurrent ==
    InitStore /\ InitCalls(ConcurrentCalls) /\ InitExtract /\ InitTask

SpecConcurrent == InitConcurrent /\ [][NextConcurrent]_vars

InitSearch == InitStore /\ InitRetry /\ InitRaw /\ InitTask

SpecExtract == InitSearch /\ [][NextExtract]_vars

InitNodes == InitStore /\ InitRetry /\ InitRich /\ InitTask

SpecNodes == InitNodes /\ [][NextExtract]_vars

====
